---- MODULE Spec2Model ----
(***************************************************************************)
(* State-machine model of the notebook                                     *)
(*   VGG-16/VGG16_FeatureExtraction_OCT2017_Retina_Kaggle.ipynb            *)
(* The notebook's cells run top to bottom: model creation, resume,         *)
(* optimizer, eval_model, visualize_model, train_model + torch.save,       *)
(* eval_model, visualize_model.  The four evaluation / visualisation cells *)
(* may be left out by the user.  Parameter tensors are abstracted to one   *)
(* value per parameter group; every optimizer update of a group gives the  *)
(* group a new value.  Losses are kept in units of 1/LossScale so that the *)
(* mean over a batch is an exact integer.  The batch size (8 in the        *)
(* notebook) and the sizes of the three splits are scaled down and drawn   *)
(* from 1..Max*.                                                           *)
(***************************************************************************)
EXTENDS Integers, Sequences, FiniteSets, TLC

\* ---------------------------------------------------------------- bounds
MaxTrain == 3
MaxVal == 2
MaxTest == 3
MaxBatch == 2
MaxEpochs == 2
MaxImages == 2
LongEpochs == 8

\* ------------------------------------------------------------- constants
TRAIN == "train"
VAL == "val"
TEST == "test"
Splits == {TRAIN, VAL, TEST}
None == "None"
Groups == {"features", "classifier"}
ImageNetClasses == 1000
NumClasses == 4
resume_training == FALSE

\* Python values handed back by a call: None, or a value.
PyNone == [is_none |-> TRUE, value |-> <<>>]
PyValue(v) == [is_none |-> FALSE, value |-> v]

\* ---------------------------------------------------------------- helpers
Min(a, b) == IF a <= b THEN a ELSE b

RECURSIVE Gcd(_, _)
Gcd(a, b) == IF b = 0 THEN a ELSE Gcd(b, a % b)

RECURSIVE LcmUpTo(_)
LcmUpTo(n) == IF n <= 1 THEN 1 ELSE (LcmUpTo(n - 1) * n) \div Gcd(LcmUpTo(n - 1), n)

\* Unit of the loss values: a batch mean sum/len is stored as LossScale*sum/len.
LossScale == LcmUpTo(MaxBatch)

\* A Python float quotient a / b, kept exact.
Rat(n, d) == [num |-> n, den |-> d]
RatGT(a, b) == a.num * b.den > b.num * a.den
RatGE(a, b) == a.num * b.den >= b.num * a.den

\* len(DataLoader) for a split of `size` samples: ceil(size / batch_size).
LoaderLen(size, b) == (size + b - 1) \div b

\* Size of the next batch a loader yields when `remaining` samples are left.
BatchLen(remaining, b) == Min(b, remaining)

\* shuffle=True: the next batch is any batch_size of the samples not yet drawn
\* (all of them when fewer are left).
NextBatches(remaining, b) ==
  {B \in SUBSET remaining : Cardinality(B) = BatchLen(Cardinality(remaining), b)}

RECURSIVE SumOver(_, _)
SumOver(S, f) ==
  IF S = {} THEN 0
  ELSE LET x == CHOOSE y \in S : TRUE IN f[x] + SumOver(S \ {x}, f)

\* The per-sample cross-entropy losses the network can produce, in two
\* levels (low, high).
LossLevels == {0, 1}

\* The possible sums of the per-sample losses of a batch of n samples.
BatchLossSums(n) == 0..n * (CHOOSE m \in LossLevels : \A l \in LossLevels : l <= m)

\* The validation loss enters nothing but the report of the epoch: the
\* validation samples are all given the high level.
ValLossLevels == {1}

\* The possible sums of the per-sample losses of a validation batch of n
\* samples.
ValBatchLossSums(n) == {n * l : l \in ValLossLevels}

\* nn.CrossEntropyLoss() (size_average default): the MEAN of the per-sample
\* losses of the batch.
criterion(loss_sum, n) == (LossScale * loss_sum) \div n

\* vgg.state_dict(): the parameter values, without the mode flag.
state_dict(v) == [features |-> v.features, classifier |-> v.classifier]

\* A restore that leaves the live parameters in place.
load_state_dict_skipped(v, sd) == v

\* vgg.load_state_dict(sd)
load_state_dict(v, sd) ==
  [v EXCEPT !.features = sd.features, !.classifier = sd.classifier]

\* copy.deepcopy(vgg.state_dict()): an independent value.
deepcopy(sd) == sd

\* optimizer.step(): every parameter handed to the optimizer whose
\* requires_grad flag is on (it has a gradient after backward) is updated.
optimizer_step(v, opt) ==
  [v EXCEPT
     !.features = IF "features" \in opt.params /\ v.requires_grad["features"]
                  THEN @ + 1 ELSE @,
     !.classifier = IF "classifier" \in opt.params /\ v.requires_grad["classifier"]
                    THEN @ + 1 ELSE @]

\* ------------------------------------------------------------------ state
VARIABLES
  pc,            \* position in the notebook / in the running function
  ret_to,        \* the cell that follows the running cell
  dataset_sizes, \* number of images of the test split
  batch_size,    \* DataLoader batch_size
  vgg,           \* the model: parameter groups, mode flag, flags, head width
  optimizer,     \* optim.SGD: the parameter groups it updates, lr exponent
  scheduler,     \* lr_scheduler.StepLR
  test_out,      \* outputs of the current parameters on the test images
  ev,            \* frame of eval_model
  vz,            \* frame of visualize_model
  tr,            \* frame of train_model
  file,          \* contents written to the checkpoint file, in order
  eval_results,  \* results of eval_model calls since the parameters last changed
  epoch_log      \* per finished epoch: what the epoch did

vars == <<pc, ret_to, dataset_sizes, batch_size, vgg, optimizer, scheduler,
          test_out, ev, vz, tr, file, eval_results, epoch_log>>

Cells == <<"model_cell", "resume_cell", "optim_cell", "eval_cell_1",
           "viz_cell_1", "train_cell", "eval_cell_2", "viz_cell_2", "end">>

OptionalCells == {"eval_cell_1", "viz_cell_1", "eval_cell_2", "viz_cell_2"}

NextCell(c) == Cells[(CHOOSE k \in 1..Len(Cells) : Cells[k] = c) + 1]

Outputs == [loss : LossLevels, ok : BOOLEAN]

NoOut == [resolved |-> FALSE, out |-> <<>>]

\* Placeholder for a state dict that has not been taken.
NoSd == [features |-> 0 - 1, classifier |-> 0 - 1]

\* Frames of the three functions while they are not running.  Fields after
\* the comment line `history` record what the call has done so far.
EvIdle == [remaining |-> {}, i |-> 0, loss_test |-> 0, acc_test |-> 0,
           test_batches |-> 0, avg_loss |-> Rat(0, 1), avg_acc |-> Rat(0, 1),
           returned |-> PyNone,
           \* history
           mode_at_call |-> FALSE, sd_at_call |-> NoSd, batches |-> <<>>]

VzIdle == [was_training |-> FALSE, num_images |-> 0, images_so_far |-> 0,
           remaining |-> 0,
           \* history
           sd_at_call |-> NoSd, broke |-> FALSE]

TrIdle == [num_epochs |-> 0, dataset_sizes |-> [s \in {TRAIN, VAL} |-> 0],
           epoch |-> 0, best_model_wts |-> NoSd,
           best_acc |-> Rat(0, 1),
           train_batches |-> 0, val_batches |-> 0,
           loss_train |-> 0, loss_val |-> 0, acc_train |-> 0, acc_val |-> 0,
           avg_loss |-> Rat(0, 1), avg_acc |-> Rat(0, 1),
           i |-> 0, remaining |-> 0,
           \* history
           best_epoch |-> 0 - 1, steps_train |-> 0, steps_val |-> 0,
           seen_train |-> 0, seen_val |-> 0, sample_loss_train |-> 0,
           sd_at_call |-> NoSd, sd_after_train |-> NoSd, restores |-> 0]

NoOptimizer == [params |-> {}, lr_decays |-> 0]
NoScheduler == [last_epoch |-> 0 - 1, step_size |-> 0]

\* models.vgg16_bn() + load_state_dict(pretrained): training mode, all
\* parameters trainable, 1000 output features.
vgg16_bn ==
  [features |-> 0, classifier |-> 0, training |-> TRUE,
   requires_grad |-> [g \in Groups |-> TRUE],
   require_grad |-> [g \in Groups |-> "unset"],
   out_features |-> ImageNetClasses]

Init ==
  /\ pc = "model_cell"
  /\ ret_to = None
  /\ batch_size \in 1..MaxBatch
  /\ dataset_sizes \in [{TEST} -> 1..MaxTest]
  /\ vgg = vgg16_bn
  /\ optimizer = NoOptimizer
  /\ scheduler = NoScheduler
  /\ test_out = NoOut
  /\ ev = EvIdle
  /\ vz = VzIdle
  /\ tr = TrIdle
  /\ file = <<>>
  /\ eval_results = <<>>
  /\ epoch_log = <<>>

\* ------------------------------------------------------- the set-up cells
\* "Freeze training for all layers": the loop assigns the attribute
\* require_grad of every parameter of vgg16.features.
freeze(v) == [v EXCEPT !.require_grad["features"] = "False"]

\* Replace classifier[6] by nn.Linear(num_features, len(class_names)): a
\* freshly initialised head, trainable by default.
replace_head(v) ==
  [v EXCEPT !.classifier = @ + 1,
            !.requires_grad["classifier"] = TRUE,
            !.out_features = NumClasses]

ModelCell ==
  /\ pc = "model_cell"
  /\ vgg' = replace_head(freeze(vgg))
  /\ pc' = NextCell(pc)
  /\ UNCHANGED <<ret_to, dataset_sizes, batch_size, optimizer, scheduler,
                 test_out, ev, vz, tr, file, eval_results, epoch_log>>

\* The parameters stored by an earlier run of the notebook.
resume_checkpoint == [features |-> 0, classifier |-> 0]

ResumeCell ==
  /\ pc = "resume_cell"
  /\ vgg' = IF resume_training THEN load_state_dict(vgg, resume_checkpoint) ELSE vgg
  /\ pc' = NextCell(pc)
  /\ UNCHANGED <<ret_to, dataset_sizes, batch_size, optimizer, scheduler,
                 test_out, ev, vz, tr, file, eval_results, epoch_log>>

\* StepLR(optimizer, step_size=7, gamma=0.1)
StepSize == 7

\* The learning rate is 0.001 * 0.1^lr_decays.
StepLR_decays(last_epoch) == last_epoch \div StepSize

\* optim.SGD(vgg16.parameters(), ...): every parameter group of the model;
\* StepLR's constructor takes its first step (last_epoch = 0).
OptimizerCell ==
  /\ pc = "optim_cell"
  /\ optimizer' = [params |-> Groups, lr_decays |-> StepLR_decays(0)]
  /\ scheduler' = [last_epoch |-> 0, step_size |-> StepSize]
  /\ pc' = NextCell(pc)
  /\ UNCHANGED <<ret_to, dataset_sizes, batch_size, vgg, test_out, ev, vz, tr,
                 file, eval_results, epoch_log>>

\* A cell of evaluation or visualisation that the user does not run.
SkipCell ==
  /\ pc \in OptionalCells
  /\ pc' = NextCell(pc)
  /\ UNCHANGED <<ret_to, dataset_sizes, batch_size, vgg, optimizer, scheduler,
                 test_out, ev, vz, tr, file, eval_results, epoch_log>>

\* -------------------------------------------------------------- eval_model
\* The network in evaluation mode is a function of its parameters and the
\* image (the test transforms are deterministic): the outputs of the current
\* parameters on the test images are fixed the first time they are needed
\* and stay until the parameters change.
\* The numbering of the test images is arbitrary (the loader draws them in
\* any order): they are numbered in the order of their outputs.
OutKey(o) == 2 * o.loss + (IF o.ok THEN 0 ELSE 1)

TestOutputs ==
  {o \in [1..dataset_sizes[TEST] -> Outputs] :
     \A s, t \in 1..dataset_sizes[TEST] : s < t => OutKey(o[s]) <= OutKey(o[t])}

EvalCall ==
  /\ pc \in {"eval_cell_1", "eval_cell_2"}
  /\ IF test_out.resolved
     THEN UNCHANGED test_out
     ELSE \E o \in TestOutputs : test_out' = [resolved |-> TRUE, out |-> o]
  /\ ev' = [EvIdle EXCEPT
              !.remaining = 1..dataset_sizes[TEST],
              !.test_batches = LoaderLen(dataset_sizes[TEST], batch_size),
              !.mode_at_call = vgg.training,
              !.sd_at_call = state_dict(vgg)]
  /\ ret_to' = NextCell(pc)
  /\ pc' = "eval_loop"
  /\ UNCHANGED <<dataset_sizes, batch_size, vgg, optimizer, scheduler, vz, tr,
                 file, eval_results, epoch_log>>

\* A switch to evaluation mode that does nothing.
eval_mode_skipped(v) == v

\* vgg.train(False); vgg.eval()
eval_mode(v) == [v EXCEPT !.training = FALSE]

\* Number of correct predictions torch.sum(preds == labels.data) of a batch.
Correct(batch, out) == Cardinality({s \in batch : out[s].ok})

\* criterion(outputs, labels) of a batch of test images.
BatchLoss(batch, out) ==
  criterion(SumOver(batch, [s \in batch |-> out[s].loss]), Cardinality(batch))

\* One iteration of the loop over dataloaders[TEST].
EvalBatch ==
  /\ pc = "eval_loop"
  /\ ev.remaining # {}
  /\ \E batch \in NextBatches(ev.remaining, batch_size) :
       ev' = [ev EXCEPT
                !.remaining = @ \ batch,
                !.i = @ + 1,
                !.loss_test = @ + BatchLoss(batch, test_out.out),
                !.acc_test = @ + Correct(batch, test_out.out),
                !.batches = Append(@, batch)]
  /\ vgg' = eval_mode(vgg)
  /\ UNCHANGED <<pc, ret_to, dataset_sizes, batch_size, optimizer, scheduler,
                 test_out, vz, tr, file, eval_results, epoch_log>>

\* A version that returns the two averages.
eval_model_return_pair(avg_loss, avg_acc) == PyValue(<<avg_loss, avg_acc>>)

\* What eval_model hands back to its caller: the function ends after its
\* print calls, without a return statement.
eval_model_return(avg_loss, avg_acc) == PyNone

\* After the loop: the averages, the report, the return.
EvalReturn ==
  /\ pc = "eval_loop"
  /\ ev.remaining = {}
  /\ LET avg_loss == Rat(ev.loss_test, dataset_sizes[TEST])
         avg_acc == Rat(ev.acc_test, dataset_sizes[TEST])
     IN ev' = [ev EXCEPT
                 !.avg_loss = avg_loss,
                 !.avg_acc = avg_acc,
                 !.returned = eval_model_return(avg_loss, avg_acc)]
  /\ pc' = "eval_done"
  /\ UNCHANGED <<ret_to, dataset_sizes, batch_size, vgg, optimizer, scheduler,
                 test_out, vz, tr, file, eval_results, epoch_log>>

\* --------------------------------------------------------- visualize_model
\* A vgg.train(mode) that leaves the mode as it is.
train_mode_ignored(v, mode) == v

\* vgg.train(mode)
train_mode(v, mode) == [v EXCEPT !.training = mode]

VisualizeCall ==
  /\ pc \in {"viz_cell_1", "viz_cell_2"}
  /\ \E num_images \in 1..MaxImages :
       vz' = [VzIdle EXCEPT
                !.was_training = vgg.training,
                !.num_images = num_images,
                !.remaining = dataset_sizes[TEST],
                !.sd_at_call = state_dict(vgg)]
  /\ vgg' = eval_mode(vgg)
  /\ ret_to' = NextCell(pc)
  /\ pc' = "viz_loop"
  /\ UNCHANGED <<dataset_sizes, batch_size, optimizer, scheduler, test_out, ev,
                 tr, file, eval_results, epoch_log>>

\* One iteration of the loop over dataloaders[TEST]: the whole batch is run
\* through the model and shown, then the count is compared.
VisualizeBatch ==
  /\ pc = "viz_loop"
  /\ vz.remaining > 0
  /\ ~vz.broke
  /\ LET size == BatchLen(vz.remaining, batch_size)
     IN vz' = [vz EXCEPT
                 !.remaining = @ - size,
                 !.images_so_far = @ + size,
                 !.broke = (vz.images_so_far + size >= vz.num_images)]
  /\ UNCHANGED <<pc, ret_to, dataset_sizes, batch_size, vgg, optimizer,
                 scheduler, test_out, ev, tr, file, eval_results, epoch_log>>

\* After the loop: "Revert model back to original training state".
VisualizeReturn ==
  /\ pc = "viz_loop"
  /\ vz.remaining = 0 \/ vz.broke
  /\ vgg' = train_mode(vgg, vz.was_training)
  /\ pc' = "viz_done"
  /\ UNCHANGED <<ret_to, dataset_sizes, batch_size, optimizer, scheduler,
                 test_out, ev, vz, tr, file, eval_results, epoch_log>>

\* ------------------------------------------------------------- train_model
\* The bound taken with integer division.
half_reached_floor(i, train_batches) == i >= train_batches \div 2

\* "Use half training dataset": i >= train_batches / 2 (true division).
half_reached(i, train_batches) == 2 * i >= train_batches

\* A comparison that always takes the newest snapshot.
improved_always(avg_acc_val, best_acc) == TRUE

\* avg_acc_val > best_acc
improved(avg_acc_val, best_acc) == RatGT(avg_acc_val, best_acc)

\* One epoch too many.
more_epochs_inclusive(epoch, num_epochs) == epoch <= num_epochs

\* `for epoch in range(num_epochs)`: the loop goes on while epoch < num_epochs.
more_epochs(epoch, num_epochs) == epoch < num_epochs

\* What a parameter update does to what is known about the model: the
\* outputs on the test images and the earlier results belong to the old
\* parameters.
KnownAfter(v_new) ==
  IF state_dict(v_new) = state_dict(vgg)
  THEN UNCHANGED <<test_out, eval_results>>
  ELSE test_out' = NoOut /\ eval_results' = <<>>

\* The sizes of the training and validation splits are inputs of train_model
\* (dataset_sizes[TRAIN], dataset_sizes[VAL]): they are drawn when it is
\* called and kept in its frame.
train_model_call(epochs, train_sizes, val_sizes) ==
  /\ pc = "train_cell"
  /\ \E num_epochs \in epochs, train_size \in train_sizes,
        val_size \in val_sizes :
       tr' = [TrIdle EXCEPT
                !.num_epochs = num_epochs,
                !.dataset_sizes = (TRAIN :> train_size) @@ (VAL :> val_size),
                !.best_model_wts = deepcopy(state_dict(vgg)),
                !.best_acc = Rat(0, 1),
                !.train_batches = LoaderLen(train_size, batch_size),
                !.val_batches = LoaderLen(val_size, batch_size),
                !.sd_at_call = state_dict(vgg)]
  /\ epoch_log' = <<>>
  /\ ret_to' = NextCell(pc)
  /\ pc' = "epoch_start"
  /\ UNCHANGED <<dataset_sizes, batch_size, vgg, optimizer, scheduler, test_out,
                 ev, vz, file, eval_results>>

TrainCall == train_model_call(0..MaxEpochs, 1..MaxTrain, 1..MaxVal)

\* Top of the body of `for epoch in range(num_epochs)`.
EpochStart ==
  /\ pc = "epoch_start"
  /\ more_epochs(tr.epoch, tr.num_epochs)
  /\ tr' = [tr EXCEPT
              !.loss_train = 0, !.loss_val = 0, !.acc_train = 0, !.acc_val = 0,
              !.i = 0, !.remaining = tr.dataset_sizes[TRAIN],
              !.steps_train = 0, !.steps_val = 0,
              !.seen_train = 0, !.seen_val = 0, !.sample_loss_train = 0]
  /\ vgg' = train_mode(vgg, TRUE)
  /\ pc' = "train_loop"
  /\ UNCHANGED <<ret_to, dataset_sizes, batch_size, optimizer, scheduler,
                 test_out, ev, vz, file, eval_results, epoch_log>>

\* A snapshot taken without a copy: the tensors of state_dict() share their
\* storage with the parameters, so the snapshot follows every update.
snapshot_after_step_shared(snapshot, v_new) == state_dict(v_new)

\* best_model_wts after a step that leaves the model in state v_new: the
\* snapshot was made by copy.deepcopy, its tensors have their own storage, and
\* the in-place update of the parameters does not reach it.
snapshot_after_step(snapshot, v_new) == snapshot

\* The running loss gains loss.data[0], the running count the number of
\* correct predictions.
add_loss(running, loss, n) == running + loss

\* One training step: zero_grad, forward, loss, backward, optimizer.step.
\* The outputs of a training batch (random augmentation, training mode,
\* changing parameters) are any sum of per-sample losses and any number of
\* correct predictions.
TrainBatch ==
  /\ pc = "train_loop"
  /\ tr.remaining > 0
  /\ ~half_reached(tr.i, tr.train_batches)
  /\ LET n == BatchLen(tr.remaining, batch_size)
     IN \E loss_sum \in BatchLossSums(n), correct \in 0..n :
          tr' = [tr EXCEPT
                   !.remaining = @ - n,
                   !.i = @ + 1,
                   !.loss_train = add_loss(@, criterion(loss_sum, n), n),
                   !.acc_train = @ + correct,
                   !.steps_train = @ + 1,
                   !.seen_train = @ + n,
                   !.sample_loss_train = @ + loss_sum,
                   !.best_model_wts =
                      snapshot_after_step(@, optimizer_step(vgg, optimizer))]
  /\ vgg' = optimizer_step(vgg, optimizer)
  /\ KnownAfter(optimizer_step(vgg, optimizer))
  /\ UNCHANGED <<pc, ret_to, dataset_sizes, batch_size, optimizer, scheduler,
                 ev, vz, file, epoch_log>>

\* The training loop ends (break, or loader exhausted): train averages
\* "* 2 as we only used half of the dataset", then evaluation mode.
TrainExit ==
  /\ pc = "train_loop"
  /\ tr.remaining = 0 \/ half_reached(tr.i, tr.train_batches)
  /\ tr' = [tr EXCEPT
              !.avg_loss = Rat(tr.loss_train * 2, tr.dataset_sizes[TRAIN]),
              !.avg_acc = Rat(tr.acc_train * 2, tr.dataset_sizes[TRAIN]),
              !.i = 0, !.remaining = tr.dataset_sizes[VAL],
              !.sd_after_train = state_dict(vgg)]
  /\ vgg' = eval_mode(vgg)
  /\ pc' = "val_loop"
  /\ UNCHANGED <<ret_to, dataset_sizes, batch_size, optimizer, scheduler,
                 test_out, ev, vz, file, eval_results, epoch_log>>

\* A validation step that also updates the parameters.
validate_step_updating(v, opt) == optimizer_step(v, opt)

\* The model after one validation step: optimizer.zero_grad() and a forward
\* pass, no backward and no optimizer.step().
validate_step(v, opt) == v

ValidateBatch ==
  /\ pc = "val_loop"
  /\ tr.remaining > 0
  /\ LET n == BatchLen(tr.remaining, batch_size)
     IN \E loss_sum \in ValBatchLossSums(n), correct \in 0..n :
          tr' = [tr EXCEPT
                   !.remaining = @ - n,
                   !.i = @ + 1,
                   !.loss_val = add_loss(@, criterion(loss_sum, n), n),
                   !.acc_val = @ + correct,
                   !.steps_val = @ + 1,
                   !.seen_val = @ + n,
                   !.best_model_wts =
                      snapshot_after_step(@, validate_step(vgg, optimizer))]
  /\ vgg' = validate_step(vgg, optimizer)
  /\ KnownAfter(validate_step(vgg, optimizer))
  /\ UNCHANGED <<pc, ret_to, dataset_sizes, batch_size, optimizer, scheduler,
                 ev, vz, file, epoch_log>>

\* The running sums and averages of an epoch are not read again after the
\* epoch's report (the next epoch overwrites them before it reads them):
\* the frame keeps what train_model still uses.
after_report(t) ==
  [TrIdle EXCEPT
     !.num_epochs = t.num_epochs, !.dataset_sizes = t.dataset_sizes,
     !.epoch = t.epoch, !.best_model_wts = t.best_model_wts,
     !.best_acc = t.best_acc, !.best_epoch = t.best_epoch,
     !.train_batches = t.train_batches, !.val_batches = t.val_batches,
     !.sd_at_call = t.sd_at_call, !.restores = t.restores]

\* After the validation loop: validation averages, the report, the
\* comparison with the best accuracy so far.
EpochEnd ==
  /\ pc = "val_loop"
  /\ tr.remaining = 0
  /\ LET avg_loss_val == Rat(tr.loss_val, tr.dataset_sizes[VAL])
         avg_acc_val == Rat(tr.acc_val, tr.dataset_sizes[VAL])
         better == improved(avg_acc_val, tr.best_acc)
     IN /\ tr' = after_report(
                   [tr EXCEPT
                      !.best_acc = IF better THEN avg_acc_val ELSE @,
                      !.best_model_wts =
                         IF better THEN deepcopy(state_dict(vgg)) ELSE @,
                      !.best_epoch = IF better THEN tr.epoch ELSE @,
                      !.epoch = @ + 1])
        /\ epoch_log' = Append(epoch_log,
             [avg_acc_val |-> avg_acc_val,
              sd |-> state_dict(vgg), sd_after_train |-> tr.sd_after_train,
              steps_train |-> tr.steps_train, steps_val |-> tr.steps_val,
              seen_train |-> tr.seen_train, seen_val |-> tr.seen_val])
  /\ pc' = "epoch_start"
  /\ UNCHANGED <<ret_to, dataset_sizes, batch_size, vgg, optimizer, scheduler,
                 test_out, ev, vz, file, eval_results>>

\* After the last epoch: vgg.load_state_dict(best_model_wts); return vgg.
TrainReturn ==
  /\ pc = "epoch_start"
  /\ ~more_epochs(tr.epoch, tr.num_epochs)
  /\ vgg' = load_state_dict(vgg, tr.best_model_wts)
  /\ KnownAfter(load_state_dict(vgg, tr.best_model_wts))
  /\ tr' = [tr EXCEPT !.restores = @ + 1]
  /\ pc' = "train_done"
  /\ UNCHANGED <<ret_to, dataset_sizes, batch_size, optimizer, scheduler, ev,
                 vz, file, epoch_log>>

\* torch.save(vgg16.state_dict(), 'VGG16_v2-OCT_Retina_half_dataset.pt')
SaveCheckpoint ==
  /\ pc = "train_done"
  /\ file' = Append(file, state_dict(vgg))
  /\ pc' = "saved"
  /\ UNCHANGED <<ret_to, dataset_sizes, batch_size, vgg, optimizer, scheduler,
                 test_out, ev, vz, tr, eval_results, epoch_log>>

\* The cell has finished; the locals of the call are gone.
CellDone ==
  /\ pc \in {"eval_done", "viz_done", "saved"}
  /\ pc' = ret_to
  /\ ret_to' = None
  /\ eval_results' =
       IF pc = "eval_done"
       THEN Append(eval_results, [avg_loss |-> ev.avg_loss, avg_acc |-> ev.avg_acc])
       ELSE eval_results
  /\ ev' = EvIdle
  /\ vz' = VzIdle
  /\ tr' = TrIdle
  /\ epoch_log' = <<>>
  /\ UNCHANGED <<dataset_sizes, batch_size, vgg, optimizer, scheduler, test_out,
                 file>>

Next ==
  \/ ModelCell
  \/ ResumeCell
  \/ OptimizerCell
  \/ SkipCell
  \/ EvalCall
  \/ EvalBatch
  \/ EvalReturn
  \/ VisualizeCall
  \/ VisualizeBatch
  \/ VisualizeReturn
  \/ TrainCall
  \/ EpochStart
  \/ TrainBatch
  \/ TrainExit
  \/ ValidateBatch
  \/ EpochEnd
  \/ TrainReturn
  \/ SaveCheckpoint
  \/ CellDone

Spec == Init /\ [][Next]_vars

\* The notebook runs on a single thread that never stops by itself: a step
\* that can be taken is taken.
FairSpec == Spec /\ WF_vars(Next)

\* ----------------------------------------------------- a long training run
\* The notebook with the four optional cells left out, at the training cell:
\* the state the three set-up cells leave.
LongInit ==
  /\ pc = "train_cell"
  /\ ret_to = None
  /\ batch_size \in 1..MaxBatch
  /\ dataset_sizes \in [{TEST} -> 1..MaxTest]
  /\ vgg = replace_head(freeze(vgg16_bn))
  /\ optimizer = [params |-> Groups, lr_decays |-> StepLR_decays(0)]
  /\ scheduler = [last_epoch |-> 0, step_size |-> StepSize]
  /\ test_out = NoOut
  /\ ev = EvIdle
  /\ vz = VzIdle
  /\ tr = TrIdle
  /\ file = <<>>
  /\ eval_results = <<>>
  /\ epoch_log = <<>>

\* train_model called for more epochs than the scheduler's step_size, on
\* splits of one image each.
LongTrainCall == train_model_call(StepSize..LongEpochs, {1}, {1})

LongNext ==
  \/ LongTrainCall
  \/ EpochStart
  \/ TrainBatch
  \/ TrainExit
  \/ ValidateBatch
  \/ EpochEnd
  \/ TrainReturn
  \/ SaveCheckpoint
  \/ CellDone

LongSpec == LongInit /\ [][LongNext]_vars

\* ================================================================ claims
TrainPcs == {"epoch_start", "train_loop", "val_loop"}

Epochs == 1..Len(epoch_log)

\* The validation accuracy of epoch e is at least that of every epoch.
IsMaxEpoch(e) ==
  \A f \in Epochs : RatGE(epoch_log[e].avg_acc_val, epoch_log[f].avg_acc_val)

\* C1 (as stated): for N >= 1 the snapshot that train_model restores and
\* returns is the parameter state of an epoch end whose validation accuracy
\* is >= the validation accuracy of every epoch end of the run.
C1_RestoredIsBestEpochEnd ==
  (pc = "train_done" /\ tr.num_epochs >= 1) =>
     \E e \in Epochs : epoch_log[e].sd = state_dict(vgg) /\ IsMaxEpoch(e)

\* C1 (amended): for N >= 1 the restored snapshot is the parameter state of
\* an epoch end whose validation accuracy is >= that of every epoch end, or,
\* when no epoch end had a validation accuracy above 0, the parameter state
\* train_model was called with.
C1_RestoredIsBestOrInitial ==
  (pc = "train_done" /\ tr.num_epochs >= 1) =>
     \/ \E e \in Epochs : epoch_log[e].sd = state_dict(vgg) /\ IsMaxEpoch(e)
     \/ /\ \A e \in Epochs : epoch_log[e].avg_acc_val.num = 0
        /\ state_dict(vgg) = tr.sd_at_call

C1_Witness ==
  /\ pc = "train_done"
  /\ Len(epoch_log) = 2
  /\ epoch_log[1].avg_acc_val.num > 0
  /\ RatGT(epoch_log[1].avg_acc_val, epoch_log[2].avg_acc_val)
  /\ state_dict(vgg) = epoch_log[1].sd
  /\ state_dict(vgg) # epoch_log[2].sd

\* C2: after the model creation cell every parameter of the feature
\* extraction layers has the flag requires_grad, which backward and the
\* optimizer consult, switched off.
C2_FeaturesNotTrainable ==
  pc # "model_cell" => vgg.requires_grad["features"] = FALSE

\* C3: during train_model the feature extraction parameters keep the value
\* they had before training began; only the classifier head changes.
C3_BackboneReadOnly ==
  pc \in TrainPcs => vgg.features = tr.sd_at_call.features

\* Number of loop indices 0..B-1 at which the training loop does not break.
StepsBeforeBreak(B) == Cardinality({i \in 0..B - 1 : ~half_reached(i, B)})

CeilHalf(B) == (B + 1) \div 2

\* C4: with B = ceil(S/b) training batches every epoch performs exactly
\* ceil(B/2) training steps, for even and odd B, and exactly ceil(val_size/b)
\* validation steps; for S = 1000, b = 8 that is 63 = ceil(500/8) steps.
C4_StepsPerEpoch ==
  /\ \A e \in Epochs :
       /\ epoch_log[e].steps_train =
            CeilHalf(LoaderLen(tr.dataset_sizes[TRAIN], batch_size))
       /\ epoch_log[e].steps_val = LoaderLen(tr.dataset_sizes[VAL], batch_size)
  /\ StepsBeforeBreak(LoaderLen(1000, 8)) = 63
  /\ LoaderLen(500, 8) = 63

C4_Witness ==
  /\ Len(epoch_log) = 2
  /\ LoaderLen(tr.dataset_sizes[TRAIN], batch_size) = 3
  /\ epoch_log[2].steps_train = 2
  /\ epoch_log[2].steps_val = 2

\* C5: the validation phase of an epoch processes every validation batch
\* exactly once and updates no parameter: the parameters during and after
\* the validation steps are those left by the epoch's last training step.
C5_ValidationReadOnly ==
  /\ pc = "val_loop" =>
       /\ state_dict(vgg) = tr.sd_after_train
       /\ tr.seen_val + tr.remaining = tr.dataset_sizes[VAL]
       /\ tr.steps_val = tr.i
  /\ \A e \in Epochs :
       /\ epoch_log[e].sd = epoch_log[e].sd_after_train
       /\ epoch_log[e].seen_val = tr.dataset_sizes[VAL]
       /\ epoch_log[e].steps_val = LoaderLen(tr.dataset_sizes[VAL], batch_size)

C5_Witness ==
  /\ pc = "epoch_start"
  /\ Len(epoch_log) = 1
  /\ epoch_log[1].steps_val = 2
  /\ epoch_log[1].sd = epoch_log[1].sd_after_train
  /\ epoch_log[1].sd # tr.sd_at_call

\* C6, the state part: Done is reached after exactly N epochs; within an
\* epoch no validation step precedes a training step and the validation
\* pass starts only when the epoch's training steps are done; the best
\* snapshot is restored once, after the last epoch.
C6_Order ==
  /\ pc \in TrainPcs => (tr.restores = 0 /\ Len(epoch_log) = tr.epoch
                          /\ tr.epoch <= tr.num_epochs)
  /\ pc = "train_loop" => (tr.steps_val = 0 /\ tr.epoch < tr.num_epochs)
  /\ pc = "val_loop" =>
       (tr.steps_train = CeilHalf(tr.train_batches) /\ tr.epoch < tr.num_epochs)
  /\ pc \in {"train_done", "saved"} =>
       (tr.restores = 1 /\ tr.epoch = tr.num_epochs
        /\ Len(epoch_log) = tr.num_epochs)

\* C6, the step part: the comparison with the best accuracy (the step that
\* closes an epoch or replaces the snapshot) is taken only when the whole
\* validation split has been processed; the restore is taken only when all
\* N epochs are closed; the loops of train_model are left only into Done.
C6_Steps ==
  /\ (pc \in TrainPcs /\ (Len(epoch_log') # Len(epoch_log)
                           \/ tr'.best_model_wts # tr.best_model_wts
                           \/ tr'.best_acc # tr.best_acc))
       => (pc = "val_loop" /\ tr.remaining = 0
           /\ tr.steps_val = tr.val_batches /\ tr.seen_val = tr.dataset_sizes[VAL])
  /\ (tr'.restores # tr.restores /\ pc \in TrainPcs)
       => (Len(epoch_log) = tr.num_epochs /\ tr.restores = 0)
  /\ (pc \in TrainPcs /\ pc' \notin TrainPcs) => pc' = "train_done"

\* C6: for every N >= 0 train_model always reaches Done after exactly N
\* epochs (its loops are left for good, and only into Done), training steps
\* before validation steps in each epoch, the comparison after the
\* validation pass, the restore once after the last epoch.
C6_TrainModelReachesDone ==
  /\ []C6_Order
  /\ [][C6_Steps]_vars
  /\ <>[](pc \notin TrainPcs)
  /\ <>(pc = "train_done")

C6_Witness ==
  /\ pc = "train_done"
  /\ tr.num_epochs = 2
  /\ Len(epoch_log) = 2
  /\ tr.restores = 1
  /\ epoch_log[2].steps_train = 2
  /\ epoch_log[2].steps_val = 2

TestImages == 1..dataset_sizes[TEST]

RECURSIVE SumBatchLoss(_, _)
SumBatchLoss(batches, out) ==
  IF batches = <<>> THEN 0
  ELSE BatchLoss(Head(batches), out) + SumBatchLoss(Tail(batches), out)

\* The batches drawn so far hold every test image exactly once.
EachImageOnce(batches) ==
  /\ \A s \in TestImages : \E k \in 1..Len(batches) : s \in batches[k]
  /\ \A k, l \in 1..Len(batches) : k # l => batches[k] \cap batches[l] = {}

\* C7 (as stated): eval_model returns to its caller the averaged test loss
\* and the averaged test accuracy it computed.
C7_ReturnsAverages ==
  pc = "eval_done" => ev.returned = PyValue(<<ev.avg_loss, ev.avg_acc>>)

\* C7 (amended): eval_model runs over the entire test split, computes
\* avg_acc = correct predictions / test size and avg_loss = sum of the
\* batches' mean losses / test size, only prints them, and returns None.
C7_ComputesAveragesReturnsNone ==
  pc = "eval_done" =>
     /\ ev.returned = PyNone
     /\ EachImageOnce(ev.batches)
     /\ ev.avg_acc = Rat(Correct(TestImages, test_out.out), dataset_sizes[TEST])
     /\ ev.avg_loss = Rat(SumBatchLoss(ev.batches, test_out.out), dataset_sizes[TEST])

C7_Witness ==
  /\ pc = "eval_done"
  /\ Len(ev.batches) = 2
  /\ ev.avg_acc.num = 2
  /\ ev.avg_loss.num > 0
  /\ ev.returned = PyNone

\* C8: eval_model has no side effect on the model: parameters and train/eval
\* mode flag after the return are those at the call, whatever the mode was.
C8_EvalLeavesModelAlone ==
  pc = "eval_done" =>
     /\ state_dict(vgg) = ev.sd_at_call
     /\ vgg.training = ev.mode_at_call

\* C9: two calls of eval_model on an unchanged model and test split yield
\* the same average accuracy and the same average loss, for every test split
\* size and every batch order the loader draws.
C9_RepeatedEvalAgrees ==
  \A k, l \in 1..Len(eval_results) :
     /\ eval_results[k].avg_acc = eval_results[l].avg_acc
     /\ eval_results[k].avg_loss = eval_results[l].avg_loss

\* C10: each training step adds the batch loss times the number of samples
\* of the batch to the running loss, so the running loss is the sum of the
\* per-sample losses and running loss / sample count is the per-sample mean.
C10_RunningLossIsSampleSum ==
  pc \in {"train_loop", "val_loop"} =>
     tr.loss_train = LossScale * tr.sample_loss_train

\* avg_acc_val as the code computes it from the frame at the end of the
\* validation loop.
AvgAccVal == Rat(tr.acc_val, tr.dataset_sizes[VAL])

\* C11, one step of train_model: a TrainBatch or ValidateBatch step leaves
\* the retained snapshot and best_acc as they are; the snapshot is replaced
\* only by the step that closes an epoch whose validation accuracy is
\* strictly above best_acc, and then by the parameters of that epoch end;
\* an epoch end with an equal or lower accuracy keeps the earlier snapshot;
\* best_acc never decreases.
C11_Step ==
  /\ (pc \in {"train_loop", "val_loop"} /\ pc' = pc) =>
        (tr'.best_model_wts = tr.best_model_wts /\ tr'.best_acc = tr.best_acc)
  /\ (pc \in TrainPcs /\ pc' \in TrainPcs
        /\ (tr'.best_model_wts # tr.best_model_wts \/ tr'.best_acc # tr.best_acc)) =>
        /\ pc = "val_loop" /\ pc' = "epoch_start" /\ tr.remaining = 0
        /\ RatGT(AvgAccVal, tr.best_acc)
        /\ tr'.best_acc = AvgAccVal
        /\ tr'.best_model_wts = state_dict(vgg)
  /\ (pc = "val_loop" /\ pc' = "epoch_start" /\ ~RatGT(AvgAccVal, tr.best_acc)) =>
        (tr'.best_model_wts = tr.best_model_wts /\ tr'.best_acc = tr.best_acc)
  /\ (pc \in TrainPcs /\ pc' \in TrainPcs \cup {"train_done"}) =>
        RatGE(tr'.best_acc, tr.best_acc)

\* C11: the retained best-parameter snapshot is an independent copy: no
\* TrainBatch or ValidateBatch step changes it, it is replaced only at an
\* EpochEnd whose validation accuracy strictly exceeds the best so far, so
\* best_acc never decreases and a tie keeps the earlier snapshot.
C11_SnapshotIndependent == [][C11_Step]_vars

\* A tie: the second epoch reaches the accuracy of the first, the snapshot
\* of the first is kept although the parameters have moved on.
C11_Witness ==
  /\ pc = "epoch_start"
  /\ Len(epoch_log) = 2
  /\ epoch_log[1].avg_acc_val.num > 0
  /\ epoch_log[2].avg_acc_val = epoch_log[1].avg_acc_val
  /\ tr.best_epoch = 0
  /\ tr.best_model_wts = epoch_log[1].sd
  /\ tr.best_model_wts # epoch_log[2].sd
  /\ tr.best_model_wts # state_dict(vgg)

\* C12: in one call visualize_model runs through the model and renders at
\* most num_images test images, for every num_images >= 1 and batch size.
C12_AtMostNumImages ==
  pc \in {"viz_loop", "viz_done"} => vz.images_so_far <= vz.num_images

\* C13: during train_model the learning rate of the optimizer is
\* 0.001 * 0.1^(epoch \div 7): it starts at 0.001 and is decreased by the
\* factor 0.1 at epoch 7, 14, ...
C13_LrDecaysEverySevenEpochs ==
  pc \in {"train_loop", "val_loop"} => optimizer.lr_decays = tr.epoch \div StepSize

\* C14, the state part: the file is never written twice, it is not written
\* before train_model has returned, it is written when the run is over, and
\* right after the write its contents are the best snapshot, which is also
\* the restored parameter state.
C14_File ==
  /\ Len(file) <= 1
  /\ (pc \in TrainPcs \cup {"train_cell", "train_done"}) => file = <<>>
  /\ pc = "end" => Len(file) = 1
  /\ pc = "saved" =>
       /\ file = <<tr.best_model_wts>>
       /\ tr.restores = 1
       /\ state_dict(vgg) = tr.best_model_wts

\* C14, the step part: the file changes only by the step taken from Done,
\* after the restore, and that step appends the best snapshot.
C14_Step ==
  file' # file =>
     /\ pc = "train_done"
     /\ tr.restores = 1
     /\ file' = Append(file, tr.best_model_wts)

\* C14: the checkpoint file is written exactly once per run, only after
\* train_model has reached Done and restored the best snapshot, and what it
\* persists is that best snapshot, not the parameters live after the last
\* training step.
C14_CheckpointIsBestSnapshot == []C14_File /\ [][C14_Step]_vars

\* The best epoch is the first of two: the file holds its parameters, not
\* those live after the last training step.
C14_Witness ==
  /\ pc = "saved"
  /\ Len(file) = 1
  /\ Len(epoch_log) = 2
  /\ file[1] = epoch_log[1].sd
  /\ file[1] # epoch_log[2].sd_after_train

\* C15: the averaged train accuracy of an epoch, correct-count * 2 /
\* training split size, lies between 0 and 1 inclusive, for every training
\* split size, batch size and number of correct predictions.
C15_TrainAccuracyIsFraction ==
  pc = "val_loop" => (0 <= tr.avg_acc.num /\ tr.avg_acc.num <= tr.avg_acc.den)

\* C16: visualize_model reverts the model to its original training state:
\* the train/eval mode at the return is the mode at the call, whatever it
\* was, on the early-break path and on the path where the test loader is
\* exhausted; and no parameter is changed during or by the call.
C16_VisualizeRestoresMode ==
  /\ pc \in {"viz_loop", "viz_done"} => state_dict(vgg) = vz.sd_at_call
  /\ pc = "viz_done" =>
       /\ vgg.training = vz.was_training
       /\ (vz.broke \/ vz.remaining = 0)

\* Called in training mode, left by the break with test images not shown.
C16_Witness ==
  /\ pc = "viz_done"
  /\ vz.was_training
  /\ vgg.training
  /\ vz.broke
  /\ vz.remaining > 0

\* C17, the step part: a step that performs optimizer.step() is taken in
\* training mode; a validation step and a visualisation step are taken in
\* evaluation mode; the forward pass of an eval_model iteration runs in
\* evaluation mode (the iteration sets the mode before its forward pass).
C17_Step ==
  /\ tr'.steps_train = tr.steps_train + 1 => vgg.training
  /\ tr'.steps_val = tr.steps_val + 1 => ~vgg.training
  /\ vz'.images_so_far > vz.images_so_far => ~vgg.training
  /\ ev'.i = ev.i + 1 => ~vgg'.training

\* C17: in the notebook's run parameter updates occur only in training
\* mode, validation and test forward passes only in evaluation mode, and
\* when train_model returns (the notebook runs it for 2 epochs; stated for
\* every N >= 1) the model is in evaluation mode.
C17_ModeDiscipline ==
  /\ [][C17_Step]_vars
  /\ []((pc = "train_done" /\ tr.num_epochs >= 1) => ~vgg.training)

C17_Witness ==
  /\ pc = "train_done"
  /\ tr.num_epochs = 2
  /\ ~vgg.training
  /\ epoch_log[2].steps_train = 2
  /\ epoch_log[2].steps_val = 1
  /\ state_dict(vgg) # tr.sd_at_call

====
